---- MODULE Spec2Model ----
(***************************************************************************)
(* UStaticWavesMusicSubsystem: the adaptive music context, its transition  *)
(* engine, and the WebSocket connection that carries the context frames.   *)
(*                                                                         *)
(* Real numbers (float) are held in fixed point, Scale units to 1.0: a     *)
(* context field of 0.9f is 900, a duration of 0.1 s is 100.  Arithmetic   *)
(* rounds to the nearest unit where float arithmetic rounds to the nearest *)
(* float.  The inputs below are chosen so that DeltaTime/TransitionDuration*)
(* is exact in both.                                                       *)
(*                                                                         *)
(* The transport (IWebSocket) is the environment: every socket the         *)
(* subsystem creates has all five callbacks bound to the subsystem, and    *)
(* stays alive in the WebSockets module for as long as it is connecting,   *)
(* open or closing, whether or not the subsystem still holds a pointer to  *)
(* it.                                                                     *)
(***************************************************************************)
EXTENDS Integers, Sequences, FiniteSets, TLC

\* ------------------------------------------------------------------ bounds

\* A run is cut off after so many sockets created and so many host calls into
\* the transition engine (ticks included).  Two kinds of run are explored: one
\* long on sockets and short on engine calls, one the other way round.
MaxSockets == 2
MaxSteps == 4

Runs == {[sockets |-> MaxSockets, steps |-> 2], [sockets |-> 1, steps |-> MaxSteps]}

\* ---------------------------------------------------------------- numbers

\* Fixed-point units per 1.0f.
Scale == 10 * 100

\* FMath::Max(0.1f, TransitionTime): the floor of a transition's duration.
MinTransitionDuration == 100

\* float TransitionTime = 1.0f: TransitionToContext's default duration.
DefaultTransitionTime == 1000

\* TransitionToContext(Context, 0.5f): the generic event's duration.
GenericEventDuration == 500

\* Values a host may pass as a duration, a frame time, an event intensity.
Durations == {-1000, 0, 2000}
DeltaTimes == {-500, 0, 500, 1000}
Intensities == {-500, 750, 1500}

\* FMath::Max, FMath::Clamp, FMath::Lerp.
FMax(A, B) == IF A >= B THEN A ELSE B

FClamp(X, Min, Max) == IF X < Min THEN Min ELSE IF X < Max THEN X ELSE Max

\* N / D rounded to the nearest unit, halves away from zero (D > 0).
RoundDiv(N, D) ==
    IF N >= 0 THEN (2 * N + D) \div (2 * D) ELSE -((2 * (-N) + D) \div (2 * D))

\* A / B of two fixed-point numbers, as a fixed-point number (B > 0).
FDiv(A, B) == RoundDiv(A * Scale, B)

\* A blend that adds the two ends where FMath::Lerp subtracts them.
Lerp_SignSlip(A, B, Alpha) == A + RoundDiv(Alpha * (B + A), Scale)

\* FMath::Lerp.
Lerp(A, B, Alpha) == A + RoundDiv(Alpha * (B - A), Scale)

\* ---------------------------------------------------------------- contexts

Fields == {"Energy", "Tension", "Darkness", "Complexity"}

Ctx(e, t, d, c) == [Energy |-> e, Tension |-> t, Darkness |-> d, Complexity |-> c]

\* FMusicContext(): every field 0.5f.
DefaultContext == Ctx(500, 500, 500, 500)

ExplorationContext == Ctx(300, 100, 200, 400)
CombatContext == Ctx(900, 800, 600, 700)
BossContext == Ctx(1000, 950, 800, 900)
PuzzleContext == Ctx(400, 500, 300, 600)
VictoryContext == Ctx(700, 200, 100, 500)

\* Contexts a host may pass: the default, one with fields outside [0,1], and
\* one in range whose fields are not whole hundredths.
WildContext == Ctx(1500, -250, 500, 1000)
FineContext == Ctx(125, 375, 995, 4)
Contexts == {WildContext, FineContext}

\* "%.2f": a field printed with two decimals, as a number of hundredths.
Fmt2(V) == RoundDiv(V, 10)

\* FMusicContext::ToJson: the four fields in order, two decimals each.
ToJson(C) ==
    <<Fmt2(C.Energy), Fmt2(C.Tension), Fmt2(C.Darkness), Fmt2(C.Complexity)>>

\* The projection of a context into [0,1] field by field.
ClampContext(C) == [f \in Fields |-> FClamp(C[f], 0, Scale)]

InUnitRange(C) == \A f \in Fields : C[f] >= 0 /\ C[f] <= Scale

\* ------------------------------------------------------------------- state

VARIABLES
    phase,               \* "constructed", "initialized" (ticker registered), "deinitialized"
    WebSocket,           \* TSharedPtr<IWebSocket>: a socket id, or NoSocket when null
    sockets,             \* the transport's state of every socket created so far
    bIsConnected,
    ServerURL,
    CurrentContext,
    TargetContext,
    TransitionAlpha,
    TransitionDuration,
    sends,               \* the WebSocket->Send calls of the latest handler, in order
    lastCall,            \* the latest handler run, with its arguments
    disconnectRequested, \* the host called Disconnect/Deinitialize after its last Connect
    transition,          \* the latest TransitionToContext call and the ticking since
    run,                 \* the bounds of this run, one of Runs
    steps                \* the engine calls made so far

vars ==
    <<phase, WebSocket, sockets, bIsConnected, ServerURL, CurrentContext,
      TargetContext, TransitionAlpha, TransitionDuration, sends, lastCall,
      disconnectRequested, transition, run, steps>>

engineVars == <<CurrentContext, TargetContext, TransitionAlpha, TransitionDuration>>

NoSocket == 0
SocketIds == 1 .. MaxSockets
Urls == {"ws://localhost:8765"}
NoUrl == ""

KnownEvents == {"combat_start", "boss_enter", "puzzle_start", "victory"}
EventNames == KnownEvents \cup {"unknown_event"}

\* The record of a handler call; the fields an operation does not take stay
\* at these values.
Call(op) ==
    [op |-> op, ctx |-> DefaultContext, time |-> 0, intensity |-> 0,
     name |-> "", url |-> NoUrl, sock |-> NoSocket]

\* No TransitionToContext call is being followed.
NoTransition == [live |-> FALSE, ctx |-> DefaultContext, time |-> 0, acc |-> 0]

\* The accumulated frame time is followed up to this much.
AccCap == 2000 + 1000

\* A tick after a followed TransitionToContext call: positive frame times add
\* up, anything else ends the following.
Ticked(tr, dt) ==
    IF tr.live /\ dt > 0
    THEN [tr EXCEPT !.acc = IF tr.acc + dt > AccCap THEN AccCap ELSE tr.acc + dt]
    ELSE NoTransition

\* The ids of the sockets created so far are 1 .. Created.
Created == Cardinality({s \in SocketIds : sockets[s] # "none"})

Init ==
    /\ phase = "constructed"
    /\ WebSocket = NoSocket
    /\ sockets = [s \in SocketIds |-> "none"]
    /\ bIsConnected = FALSE
    /\ ServerURL = NoUrl
    /\ CurrentContext = DefaultContext
    /\ TargetContext = DefaultContext
    /\ TransitionAlpha = Scale
    /\ TransitionDuration = DefaultTransitionTime
    /\ sends = <<>>
    /\ lastCall = Call("constructor")
    /\ disconnectRequested = FALSE
    /\ transition = NoTransition
    /\ run \in Runs
    /\ steps = 0

\* A host call into the transition engine, while the run has calls left.
EngineCall ==
    /\ phase = "initialized"
    /\ steps < run.steps
    /\ steps' = steps + 1
    /\ run' = run

\* --------------------------------------------------------------- operations

\* SendControlUpdate without its test of bIsConnected.
SendControlUpdate_NoConnectedTest(connected, ws, cur) ==
    IF ws = NoSocket THEN <<>> ELSE <<[sock |-> ws, frame |-> ToJson(cur)]>>

\* SendControlUpdate: the Send calls it makes, given the connection flag, the
\* socket pointer and the current context.
SendControlUpdate(connected, ws, cur) ==
    IF ~connected \/ ws = NoSocket
    THEN <<>>
    ELSE <<[sock |-> ws, frame |-> ToJson(cur)]>>

Initialize ==
    /\ UNCHANGED <<run, steps>>
    /\ phase = "constructed"
    /\ phase' = "initialized"
    /\ sends' = <<>>
    /\ lastCall' = Call("Initialize")
    /\ UNCHANGED <<WebSocket, sockets, bIsConnected, ServerURL, engineVars,
                   disconnectRequested, transition>>

Connect(url) ==
    /\ UNCHANGED <<run, steps>>
    /\ phase = "initialized"
    /\ sends' = <<>>
    /\ lastCall' = [Call("Connect") EXCEPT !.url = url]
    /\ disconnectRequested' = FALSE
    /\ IF bIsConnected
       THEN UNCHANGED <<WebSocket, sockets, ServerURL>>
       ELSE /\ Created < run.sockets
            /\ ServerURL' = url
            /\ WebSocket' = Created + 1
            /\ sockets' = [sockets EXCEPT ![Created + 1] = "pending"]
    /\ UNCHANGED <<phase, bIsConnected, engineVars, transition>>

\* IWebSocket::Close on socket s, as the transport sees it.
Closed(socks, s) ==
    IF socks[s] \in {"pending", "open"} THEN [socks EXCEPT ![s] = "closing"] ELSE socks

\* The body of Disconnect, shared with Deinitialize.
DisconnectBody ==
    IF ~bIsConnected
    THEN UNCHANGED <<WebSocket, sockets, bIsConnected>>
    ELSE /\ IF WebSocket # NoSocket
            THEN /\ sockets' = Closed(sockets, WebSocket)
                 /\ WebSocket' = NoSocket
            ELSE UNCHANGED <<WebSocket, sockets>>
         /\ bIsConnected' = FALSE

Disconnect ==
    /\ UNCHANGED <<run, steps>>
    /\ phase = "initialized"
    /\ DisconnectBody
    /\ sends' = <<>>
    /\ lastCall' = Call("Disconnect")
    /\ disconnectRequested' = TRUE
    /\ UNCHANGED <<phase, ServerURL, engineVars, transition>>

Deinitialize ==
    /\ UNCHANGED <<run, steps>>
    /\ phase = "initialized"
    /\ phase' = "deinitialized"
    /\ DisconnectBody
    /\ sends' = <<>>
    /\ lastCall' = Call("Deinitialize")
    /\ disconnectRequested' = TRUE
    /\ UNCHANGED <<ServerURL, engineVars, transition>>

SetMusicContext(Context) ==
    /\ EngineCall
    /\ CurrentContext' = Context
    /\ TargetContext' = Context
    /\ TransitionAlpha' = Scale
    /\ sends' = SendControlUpdate(bIsConnected, WebSocket, Context)
    /\ lastCall' = [Call("SetMusicContext") EXCEPT !.ctx = Context]
    /\ transition' = NoTransition
    /\ UNCHANGED <<phase, WebSocket, sockets, bIsConnected, ServerURL,
                   TransitionDuration, disconnectRequested>>

\* What TransitionToContext assigns; the presets and events go through it.
TransitionEffect(Context, TransitionTime) ==
    /\ TargetContext' = Context
    /\ TransitionDuration' = FMax(MinTransitionDuration, TransitionTime)
    /\ TransitionAlpha' = 0
    /\ transition' = [live |-> TRUE, ctx |-> Context, time |-> TransitionTime, acc |-> 0]
    /\ sends' = <<>>
    /\ UNCHANGED <<phase, WebSocket, sockets, bIsConnected, ServerURL,
                   CurrentContext, disconnectRequested>>

TransitionToContext(Context, TransitionTime) ==
    /\ EngineCall
    /\ TransitionEffect(Context, TransitionTime)
    /\ lastCall' = [Call("TransitionToContext") EXCEPT !.ctx = Context, !.time = TransitionTime]

Preset(op, Context) ==
    /\ EngineCall
    /\ TransitionEffect(Context, DefaultTransitionTime)
    /\ lastCall' = Call(op)

SetExploration == Preset("SetExploration", ExplorationContext)
SetCombat == Preset("SetCombat", CombatContext)
SetBoss == Preset("SetBoss", BossContext)
SetPuzzle == Preset("SetPuzzle", PuzzleContext)
SetVictory == Preset("SetVictory", VictoryContext)

\* The generic branch starting from the target instead of the current context.
GenericEventContext_FromTarget(cur, tgt, Intensity) ==
    [tgt EXCEPT !.Tension = FClamp(Intensity, 0, Scale)]

\* The context of PushMusicEvent's generic branch.
GenericEventContext(cur, tgt, Intensity) ==
    [cur EXCEPT !.Tension = FClamp(Intensity, 0, Scale)]

\* PushMusicEvent with "boss_enter" dispatched to SetCombat.
PushMusicEvent_BossAsCombat(EventName, Intensity) ==
    /\ EngineCall
    /\ lastCall' = [Call("PushMusicEvent") EXCEPT !.name = EventName, !.intensity = Intensity]
    /\ IF EventName \in {"combat_start", "boss_enter"}
       THEN TransitionEffect(CombatContext, DefaultTransitionTime)
       ELSE IF EventName = "puzzle_start" THEN TransitionEffect(PuzzleContext, DefaultTransitionTime)
       ELSE IF EventName = "victory" THEN TransitionEffect(VictoryContext, DefaultTransitionTime)
       ELSE TransitionEffect(GenericEventContext(CurrentContext, TargetContext, Intensity),
                             GenericEventDuration)

PushMusicEvent(EventName, Intensity) ==
    /\ EngineCall
    /\ lastCall' = [Call("PushMusicEvent") EXCEPT !.name = EventName, !.intensity = Intensity]
    /\ IF EventName = "combat_start" THEN TransitionEffect(CombatContext, DefaultTransitionTime)
       ELSE IF EventName = "boss_enter" THEN TransitionEffect(BossContext, DefaultTransitionTime)
       ELSE IF EventName = "puzzle_start" THEN TransitionEffect(PuzzleContext, DefaultTransitionTime)
       ELSE IF EventName = "victory" THEN TransitionEffect(VictoryContext, DefaultTransitionTime)
       ELSE TransitionEffect(GenericEventContext(CurrentContext, TargetContext, Intensity),
                             GenericEventDuration)

\* Tick's new TransitionAlpha with DeltaTime added as it is, not divided by
\* the duration.
AdvanceAlpha_NoDivision(alpha, dt, duration) == FClamp(alpha + dt, 0, Scale)

\* Tick's new TransitionAlpha without the clamp to [0, 1].
AdvanceAlpha_NoClamp(alpha, dt, duration) == alpha + FDiv(dt, duration)

\* Tick's new TransitionAlpha, and its new CurrentContext under that alpha.
AdvanceAlpha(alpha, dt, duration) == FClamp(alpha + FDiv(dt, duration), 0, Scale)

LerpContext(cur, tgt, alpha) == [f \in Fields |-> Lerp(cur[f], tgt[f], alpha)]

\* Tick sending on every call, at rest too.
TickSends_Always(alpha, cur, new) == TRUE

\* Tick sending only when the tick changed the current context.
TickSends_OnlyIfChanged(alpha, cur, new) == alpha < Scale /\ new # cur

\* Whether Tick reaches its SendControlUpdate call.
TickSends(alpha, cur, new) == alpha < Scale

Tick(DeltaTime) ==
    /\ EngineCall
    /\ lastCall' = [Call("Tick") EXCEPT !.time = DeltaTime]
    /\ transition' = Ticked(transition, DeltaTime)
    /\ IF TransitionAlpha < Scale
       THEN /\ TransitionAlpha' = AdvanceAlpha(TransitionAlpha, DeltaTime, TransitionDuration)
            /\ CurrentContext' = LerpContext(CurrentContext, TargetContext, TransitionAlpha')
       ELSE UNCHANGED <<TransitionAlpha, CurrentContext>>
    /\ sends' = IF TickSends(TransitionAlpha, CurrentContext, CurrentContext')
                THEN SendControlUpdate(bIsConnected, WebSocket, CurrentContext')
                ELSE <<>>
    /\ UNCHANGED <<phase, WebSocket, sockets, bIsConnected, ServerURL, TargetContext,
                   TransitionDuration, disconnectRequested>>

\* ------------------------------------------------------- transport callbacks

\* Socket s finishes its handshake: the transport broadcasts OnConnected.
OnConnected(s) ==
    /\ UNCHANGED <<run, steps>>
    /\ sockets[s] = "pending"
    /\ sockets' = [sockets EXCEPT ![s] = "open"]
    /\ bIsConnected' = TRUE
    /\ sends' = SendControlUpdate(TRUE, WebSocket, CurrentContext)
    /\ lastCall' = [Call("OnConnected") EXCEPT !.sock = s]
    /\ UNCHANGED <<phase, WebSocket, ServerURL, engineVars, disconnectRequested, transition>>

\* OnConnectionError leaving bIsConnected as it was.
OnConnectionError_KeepsFlag(s) ==
    /\ UNCHANGED <<run, steps>>
    /\ sockets[s] \in {"pending", "open"}
    /\ sockets' = [sockets EXCEPT ![s] = "dead"]
    /\ sends' = <<>>
    /\ lastCall' = [Call("OnConnectionError") EXCEPT !.sock = s]
    /\ UNCHANGED <<phase, WebSocket, bIsConnected, ServerURL, engineVars,
                   disconnectRequested, transition>>

\* Socket s fails, connecting or open: the transport broadcasts OnConnectionError.
OnConnectionError(s) ==
    /\ UNCHANGED <<run, steps>>
    /\ sockets[s] \in {"pending", "open"}
    /\ sockets' = [sockets EXCEPT ![s] = "dead"]
    /\ bIsConnected' = FALSE
    /\ sends' = <<>>
    /\ lastCall' = [Call("OnConnectionError") EXCEPT !.sock = s]
    /\ UNCHANGED <<phase, WebSocket, ServerURL, engineVars, disconnectRequested, transition>>

\* OnClosed ending the transition in progress.
OnClosed_StopsTransition(s) ==
    /\ UNCHANGED <<run, steps>>
    /\ sockets[s] \in {"open", "closing"}
    /\ sockets' = [sockets EXCEPT ![s] = "dead"]
    /\ bIsConnected' = FALSE
    /\ sends' = <<>>
    /\ lastCall' = [Call("OnClosed") EXCEPT !.sock = s]
    /\ TransitionAlpha' = Scale
    /\ UNCHANGED <<phase, WebSocket, ServerURL, CurrentContext, TargetContext,
                   TransitionDuration, disconnectRequested, transition>>

\* Socket s is closed, by the peer or after Close: the transport broadcasts OnClosed.
OnClosed(s) ==
    /\ UNCHANGED <<run, steps>>
    /\ sockets[s] \in {"open", "closing"}
    /\ sockets' = [sockets EXCEPT ![s] = "dead"]
    /\ bIsConnected' = FALSE
    /\ sends' = <<>>
    /\ lastCall' = [Call("OnClosed") EXCEPT !.sock = s]
    /\ UNCHANGED <<phase, WebSocket, ServerURL, engineVars, disconnectRequested, transition>>

OnMessage(s) ==
    /\ UNCHANGED <<run, steps>>
    /\ sockets[s] = "open"
    /\ sends' = <<>>
    /\ lastCall' = [Call("OnMessage") EXCEPT !.sock = s]
    /\ UNCHANGED <<phase, WebSocket, sockets, bIsConnected, ServerURL, engineVars,
                   disconnectRequested, transition>>

OnRawMessage(s) ==
    /\ UNCHANGED <<run, steps>>
    /\ sockets[s] = "open"
    /\ sends' = <<>>
    /\ lastCall' = [Call("OnRawMessage") EXCEPT !.sock = s]
    /\ UNCHANGED <<phase, WebSocket, sockets, bIsConnected, ServerURL, engineVars,
                   disconnectRequested, transition>>

\* ------------------------------------------------------------ specification

Next ==
    \/ Initialize
    \/ Deinitialize
    \/ \E url \in Urls : Connect(url)
    \/ Disconnect
    \/ \E c \in Contexts : SetMusicContext(c)
    \/ \E c \in Contexts, d \in Durations \cup {DefaultTransitionTime} : TransitionToContext(c, d)
    \/ SetExploration
    \/ SetCombat
    \/ SetBoss
    \/ SetPuzzle
    \/ SetVictory
    \/ \E n \in EventNames, i \in Intensities : PushMusicEvent(n, i)
    \/ \E dt \in DeltaTimes : Tick(dt)
    \/ \E s \in SocketIds : OnConnected(s)
    \/ \E s \in SocketIds : OnConnectionError(s)
    \/ \E s \in SocketIds : OnClosed(s)
    \/ \E s \in SocketIds : OnMessage(s)
    \/ \E s \in SocketIds : OnRawMessage(s)

Spec == Init /\ [][Next]_vars

\* ------------------------------------------------------------------- claims

\* The sockets whose handshake is under way or done.
LiveSockets == {s \in SocketIds : sockets[s] \in {"pending", "open"}}

\* The fields of a sent frame, in hundredths, lie in [0.00, 1.00].
FrameInRange(m) == \A i \in 1 .. Len(m.frame) : m.frame[i] >= 0 /\ m.frame[i] <= 100

\* C1: Connect is a no-op while an earlier Connect's socket is still pending
\* or open, so at most one socket the subsystem created is pending or open.
C1_OneLiveSocket == Cardinality(LiveSockets) <= 1

\* C2: once the host has called Disconnect (or Deinitialize) after its last
\* Connect, the subsystem is not connected and sends nothing, whatever the
\* connection's state was at the call.
C2_DisconnectIsFinal == disconnectRequested => (~bIsConnected /\ sends = <<>>)

\* C3: the four fields of the current and of the target context lie in [0,1]
\* in every reachable state, and so do the fields of every frame sent.
C3_ContextsInUnitRange ==
    /\ InUnitRange(CurrentContext)
    /\ InUnitRange(TargetContext)
    /\ \A i \in 1 .. Len(sends) : FrameInRange(sends[i])

\* C4: no handler sends while the subsystem is not connected: a step that
\* sends ends connected, and began connected unless it is the open handler
\* itself; SetMusicContext and Tick in particular send nothing when
\* IsConnected() is false.
C4_NoSendUnlessConnected ==
    [][sends' # <<>> =>
         /\ bIsConnected'
         /\ bIsConnected \/ lastCall'.op = "OnConnected"]_vars

\* C4's case: a tick of a running transition, and a SetMusicContext, with a
\* socket held but not connected, sent nothing.
C4_Witness ==
    /\ ~bIsConnected
    /\ WebSocket # NoSocket
    /\ sends = <<>>
    /\ \/ lastCall.op = "Tick" /\ TransitionAlpha < Scale
       \/ lastCall.op = "SetMusicContext"

\* C5: whenever the subsystem becomes connected, the open handler sends
\* exactly one frame, the serialization of the current context.
C5_OneFrameOnConnect ==
    [][(~bIsConnected /\ bIsConnected') =>
         /\ Len(sends') = 1
         /\ sends'[1].frame = ToJson(CurrentContext')]_vars

\* The subsystem is connected and the socket it holds is open.
ConnectedOverOpenSocket ==
    bIsConnected /\ WebSocket # NoSocket /\ sockets[WebSocket] = "open"

\* C6: while connected, a tick sends exactly one frame if it changed the
\* current context and none if it did not.
C6_TickSendsIffChanged ==
    [][(ConnectedOverOpenSocket /\ lastCall'.op = "Tick") =>
         IF CurrentContext' # CurrentContext THEN Len(sends') = 1 ELSE sends' = <<>>]_vars

\* C6 as amended: a tick sends one frame, the serialization of the current
\* context it leaves, exactly when TransitionAlpha was below 1.0 as it began
\* and the subsystem is connected with a socket held, whether or not the
\* current context changed; otherwise it sends none.
C6_TickSendsIffInTransition ==
    [][lastCall'.op = "Tick" =>
         sends' = IF TransitionAlpha < Scale /\ bIsConnected /\ WebSocket # NoSocket
                  THEN <<[sock |-> WebSocket, frame |-> ToJson(CurrentContext')]>>
                  ELSE <<>>]_vars

\* C6's case: a tick of 0 s at TransitionAlpha 0, which changes nothing,
\* sent a frame over the open socket.
C6_Witness ==
    /\ ConnectedOverOpenSocket
    /\ lastCall.op = "Tick"
    /\ lastCall.time = 0
    /\ TransitionAlpha = 0
    /\ sends = <<[sock |-> WebSocket, frame |-> ToJson(CurrentContext)]>>

\* C7: after TransitionToContext(C, d) and then only ticks of positive frame
\* time, once the frame times add up to max(d, 0.1) the current context is
\* clamp(C) and TransitionAlpha is 1.0.
C7_TransitionCompletes ==
    (transition.live /\ transition.acc >= FMax(transition.time, MinTransitionDuration)) =>
        (CurrentContext = ClampContext(transition.ctx) /\ TransitionAlpha = Scale)

\* C8: TransitionToContext(C, d) leaves the current context alone, sends
\* nothing, and sets the target to clamp(C), the duration to max(d, 0.1) and
\* TransitionAlpha to 0, whatever the earlier target was.
C8_TransitionToContextEffect ==
    [][lastCall'.op = "TransitionToContext" =>
         /\ CurrentContext' = CurrentContext
         /\ sends' = <<>>
         /\ TargetContext' = ClampContext(lastCall'.ctx)
         /\ TransitionDuration' = FMax(lastCall'.time, MinTransitionDuration)
         /\ TransitionAlpha' = 0]_vars

\* C9: SetMusicContext(C) sets the current and the target context to clamp(C)
\* and TransitionAlpha to 1.0, and sends exactly one frame if connected.
C9_SetMusicContextEffect ==
    [][lastCall'.op = "SetMusicContext" =>
         /\ CurrentContext' = ClampContext(lastCall'.ctx)
         /\ TargetContext' = ClampContext(lastCall'.ctx)
         /\ TransitionAlpha' = Scale
         /\ Len(sends') = IF bIsConnected THEN 1 ELSE 0]_vars

\* The contexts a host names: the default, the arguments and the presets.
NamedContexts ==
    Contexts \cup {DefaultContext, ExplorationContext, CombatContext, BossContext,
                   PuzzleContext, VictoryContext}

\* C10: PushMusicEvent with a name outside the four known ones leaves the
\* current context alone and starts a transition of 0.5 s whose target is the
\* current context of the moment with Tension replaced by the intensity
\* clamped to [0,1].
C10_GenericEventEffect ==
    [][(lastCall'.op = "PushMusicEvent" /\ lastCall'.name \notin KnownEvents) =>
         /\ CurrentContext' = CurrentContext
         /\ TargetContext' =
                [CurrentContext EXCEPT !.Tension = FClamp(lastCall'.intensity, 0, Scale)]
         /\ TransitionDuration' = Scale \div 2
         /\ TransitionAlpha' = 0]_vars

\* C10's case: an unknown event of intensity 0.75 arrived while the current
\* context was part-way through a transition.
C10_Witness ==
    /\ lastCall.op = "PushMusicEvent"
    /\ lastCall.name = "unknown_event"
    /\ lastCall.intensity = 750
    /\ CurrentContext \notin NamedContexts
    /\ TargetContext = [CurrentContext EXCEPT !.Tension = 750]
    /\ TransitionDuration = GenericEventDuration
    /\ TransitionAlpha = 0

\* The preset table of the specification, by event name.
EventPresetTable ==
    [combat_start |-> Ctx(900, 800, 600, 700),
     boss_enter |-> Ctx(1000, 950, 800, 900),
     puzzle_start |-> Ctx(400, 500, 300, 600),
     victory |-> Ctx(700, 200, 100, 500)]

\* C11: PushMusicEvent with one of the four known names sets the target to
\* that name's preset, the duration to 1.0 and TransitionAlpha to 0, whatever
\* the intensity and the state before.
C11_KnownEventEffect ==
    [][(lastCall'.op = "PushMusicEvent" /\ lastCall'.name \in KnownEvents) =>
         /\ TargetContext' = EventPresetTable[lastCall'.name]
         /\ TransitionDuration' = Scale
         /\ TransitionAlpha' = 0]_vars

\* C11's case: "boss_enter" with an intensity below 0 arrived part-way through
\* another transition.
C11_Witness ==
    /\ lastCall.op = "PushMusicEvent"
    /\ lastCall.name = "boss_enter"
    /\ lastCall.intensity < 0
    /\ CurrentContext \notin NamedContexts
    /\ TargetContext = Ctx(1000, 950, 800, 900)
    /\ TransitionAlpha = 0

\* C12: a tick whose frame time is 0 or negative leaves TransitionAlpha as it
\* was: progress never decreases through a tick.
C12_NonPositiveTickKeepsAlpha ==
    [][(lastCall'.op = "Tick" /\ lastCall'.time <= 0) =>
         TransitionAlpha' = TransitionAlpha]_vars

\* C13: after the error or the close handler the subsystem is not connected;
\* no handler but Connect creates a socket or starts a connection attempt;
\* and a Connect made while not connected takes a socket not used before,
\* holds it and starts its attempt.
C13_ErrorThenReconnect ==
    [][/\ lastCall'.op \in {"OnConnectionError", "OnClosed"} => ~bIsConnected'
       /\ (\E s \in SocketIds : sockets'[s] = "pending" /\ sockets[s] # "pending")
              => lastCall'.op = "Connect"
       /\ (lastCall'.op = "Connect" /\ ~bIsConnected) =>
              /\ WebSocket' # NoSocket
              /\ sockets[WebSocket'] = "none"
              /\ sockets'[WebSocket'] = "pending"]_vars

\* C13's case: the first socket is gone, the host has called Connect again
\* and the subsystem holds a second socket, which is connecting.
C13_Witness ==
    /\ lastCall.op = "Connect"
    /\ ~bIsConnected
    /\ \E s \in SocketIds : sockets[s] = "dead"
    /\ WebSocket # NoSocket
    /\ sockets[WebSocket] = "pending"

\* C14: whenever the subsystem is connected, the last frame sent on its
\* current socket is the serialization of the current context.  Step by
\* step: a handler that ends connected and has just become connected, taken
\* another socket or changed the serialized current context ends by sending
\* that serialization on the current socket, and so does every handler that
\* ends connected and sends at all.
C14_LastFrameIsCurrent ==
    [][bIsConnected' =>
         /\ (\/ ~bIsConnected
             \/ WebSocket' # WebSocket
             \/ ToJson(CurrentContext') # ToJson(CurrentContext))
                => sends' # <<>>
         /\ sends' # <<>> =>
                /\ sends'[Len(sends')].sock = WebSocket'
                /\ sends'[Len(sends')].frame = ToJson(CurrentContext')]_vars

\* C15: a Tick that finds TransitionAlpha at 1.0 changes neither the current
\* context, the target, TransitionAlpha nor TransitionDuration and sends no
\* frame, whatever its DeltaTime.
C15_TickAtRestIsNoOp ==
    [][(lastCall'.op = "Tick" /\ TransitionAlpha = Scale) =>
         /\ UNCHANGED engineVars
         /\ sends' = <<>>]_vars

\* C15's case: after SetMusicContext, a Tick with a non-zero DeltaTime on a
\* connected subsystem that holds an open socket has sent nothing, which Tick
\* does only when it found TransitionAlpha at 1.0.
C15_Witness ==
    /\ lastCall.op = "Tick"
    /\ lastCall.time # 0
    /\ TransitionAlpha = Scale
    /\ CurrentContext = WildContext
    /\ bIsConnected
    /\ WebSocket # NoSocket
    /\ sockets[WebSocket] = "open"
    /\ sends = <<>>

\* The handlers of the connection's life cycle.
LifecycleOps ==
    {"Connect", "Disconnect", "Deinitialize", "OnConnected", "OnConnectionError",
     "OnClosed", "OnMessage", "OnRawMessage"}

\* C16: Connect, Disconnect and the transport's callbacks leave the current
\* context, the target, TransitionAlpha and TransitionDuration unchanged, and
\* a Tick on a subsystem that is not connected advances a transition by the
\* same rule as on a connected one: alpha by DeltaTime / TransitionDuration,
\* clamped, and the current context blended towards the target by it.
C16_LifecycleKeepsAdaptiveState ==
    [][/\ lastCall'.op \in LifecycleOps => UNCHANGED engineVars
       /\ (lastCall'.op = "Tick" /\ TransitionAlpha < Scale) =>
              /\ TransitionAlpha' =
                     FClamp(TransitionAlpha + RoundDiv(lastCall'.time * Scale, TransitionDuration),
                            0, Scale)
              /\ \A f \in Fields :
                     CurrentContext'[f] =
                         CurrentContext[f]
                           + RoundDiv(TransitionAlpha' * (TargetContext[f] - CurrentContext[f]), Scale)
              /\ UNCHANGED <<TargetContext, TransitionDuration>>]_vars

\* C16's case: the connection was lost, and a Tick on the subsystem, which is
\* not connected, has moved a transition part of its way.
C16_Witness ==
    /\ lastCall.op = "Tick"
    /\ lastCall.time > 0
    /\ ~bIsConnected
    /\ \E s \in SocketIds : sockets[s] = "dead"
    /\ TransitionAlpha > 0
    /\ TransitionAlpha < Scale
    /\ CurrentContext # TargetContext
    /\ CurrentContext \notin NamedContexts \cup Contexts

\* C17: in every reachable state TransitionAlpha lies in [0, 1] and
\* TransitionDuration is at least 0.1, so it is positive and the division of
\* Tick is defined, whatever DeltaTime and TransitionTime arguments were
\* passed, zero and negative ones included.
C17_AlphaAndDurationInRange ==
    /\ TransitionAlpha >= 0
    /\ TransitionAlpha <= Scale
    /\ TransitionDuration >= MinTransitionDuration
    /\ TransitionDuration > 0

\* C17's case: a transition asked for with a zero or negative time runs with
\* the duration 0.1, and a Tick of a whole second, ten times that duration,
\* has ended it with TransitionAlpha at 1.0.
C17_Witness ==
    /\ lastCall.op = "Tick"
    /\ lastCall.time = Scale
    /\ transition.live
    /\ transition.time <= 0
    /\ TransitionDuration = MinTransitionDuration
    /\ TransitionAlpha = Scale
    /\ CurrentContext = TargetContext
    /\ CurrentContext \in Contexts

\* The blend of the specification: from the value a field has now towards its
\* target, by the new progress.
Blend(from, to, progress) == from + RoundDiv((to - from) * progress, Scale)

\* C18: a Tick that finds TransitionAlpha below 1.0 first sets it to
\* clamp(alpha + DeltaTime / TransitionDuration, 0, 1), then sets every field
\* of the current context to its value before the call blended towards the
\* target by the new alpha; the target and TransitionDuration are unchanged.
C18_TickBlendsFromLiveCurrent ==
    [][(lastCall'.op = "Tick" /\ TransitionAlpha < Scale) =>
         /\ TransitionAlpha' = FClamp(TransitionAlpha + FDiv(lastCall'.time, TransitionDuration),
                                      0, Scale)
         /\ \A f \in Fields :
                CurrentContext'[f] = Blend(CurrentContext[f], TargetContext[f], TransitionAlpha')
         /\ TargetContext' = TargetContext
         /\ TransitionDuration' = TransitionDuration]_vars

\* C18's case: the second Tick of a transition of two seconds, after two
\* frames of half a second each.  The current context is the blend of the
\* first Tick's result by 0.5, which is not the blend of the context the
\* transition started from.
C18_Witness ==
    /\ lastCall.op = "Tick"
    /\ lastCall.time = 500
    /\ transition.live
    /\ transition.acc = Scale
    /\ TransitionDuration = 2 * Scale
    /\ TransitionAlpha = 500
    /\ TargetContext = FineContext
    /\ CurrentContext.Energy =
           Blend(Blend(DefaultContext.Energy, FineContext.Energy, 250), FineContext.Energy, 500)
    /\ CurrentContext.Energy # Blend(DefaultContext.Energy, FineContext.Energy, 500)

\* C19: in every reachable state bIsConnected is true exactly when the socket
\* the subsystem holds has opened and has neither failed nor closed since, and
\* every frame of the latest handler was handed to a socket that is open.
C19_FlagTracksCurrentSocket ==
    /\ bIsConnected <=> (WebSocket # NoSocket /\ sockets[WebSocket] = "open")
    /\ \A i \in 1 .. Len(sends) : sockets[sends[i].sock] = "open"

\* X lies between A and B, the ends included, whichever of them is larger.
Between(X, A, B) == (A <= X /\ X <= B) \/ (B <= X /\ X <= A)

\* The distance of two fixed-point numbers.
Dist(A, B) == IF A >= B THEN A - B ELSE B - A

\* C20: after a Tick every field of the current context lies between its
\* value before the call and the target's, so its distance to the target has
\* not grown, and a current context and a target that were both within [0, 1]
\* before the Tick are within [0, 1] after it.
C20_TickNeverOvershoots ==
    [][lastCall'.op = "Tick" =>
         /\ \A f \in Fields :
                /\ Between(CurrentContext'[f], CurrentContext[f], TargetContext[f])
                /\ Dist(CurrentContext'[f], TargetContext'[f])
                       <= Dist(CurrentContext[f], TargetContext[f])
         /\ (InUnitRange(CurrentContext) /\ InUnitRange(TargetContext)) =>
                (InUnitRange(CurrentContext') /\ InUnitRange(TargetContext'))]_vars

\* C20's case: a Tick part-way through a transition between two contexts
\* within [0, 1]: Darkness has risen from 0.5 without reaching the target's
\* 0.995, Complexity has fallen from 0.5 without reaching the target's 0.004.
C20_Witness ==
    /\ lastCall.op = "Tick"
    /\ InUnitRange(CurrentContext)
    /\ TargetContext = FineContext
    /\ TransitionAlpha > 0
    /\ TransitionAlpha < Scale
    /\ CurrentContext.Darkness > DefaultContext.Darkness
    /\ CurrentContext.Darkness < FineContext.Darkness
    /\ CurrentContext.Complexity < DefaultContext.Complexity
    /\ CurrentContext.Complexity > FineContext.Complexity

====
